---- MODULE Spec2Model ----
(***************************************************************************)
(* A model of rabbitmq_rpc.client.RPCClient: the per-URL registry of       *)
(* clients (create), the connection lifecycle of one client (connect,      *)
(* reconnect, close, get_channel) and the RPC / pub-sub operations that    *)
(* run through with_retry_and_timeout.                                     *)
(*                                                                         *)
(* Every coroutine invocation is a task.  A task moves from one await of   *)
(* the source to the next in one step; everything the source does between  *)
(* two awaits happens in a single step, as on an asyncio event loop.  The  *)
(* transport library (aio_pika) is the environment: each awaited transport *)
(* request completes with an outcome the environment chooses.              *)
(***************************************************************************)
EXTENDS Naturals, Sequences, FiniteSets

(* ----------------------------- bounds --------------------------------- *)

\* Number of calls (tasks) in one run of each specification: calls of create
\* and of close on what it returns, calls of the lifecycle methods of one
\* client, calls of the operations of one client (beside one call of close),
\* calls on two clients (two of create, the others of their lifecycle methods).
\* The calls start at any time: one after another or while others are suspended.
NCallers == 3
NLife == 2
NOps == 1
NPair == 3

\* Number of distinct URLs handed to create.
NUrls == 2

\* Largest retry_count handed to send / call / publish_event / subscribe_event.
MaxRetry == 2

Urls == 1..NUrls

\* Every call constructs at most one client, opens at most one transport
\* connection and at most one channel; the initial state may hold one of each.
Larger(a, b) == IF a >= b THEN a ELSE b
MostCalls == Larger(Larger(NCallers, NLife), Larger(NOps, NPair))
Insts == 1..(MostCalls + 1)
Conns == 1..(MostCalls + 1)
Chans == 1..(MostCalls + 1)

\* None, for the Optional fields of the source.
None == 0

(* --------------------------- exceptions ------------------------------- *)

OK == "ok"

\* The three messages with which the source raises its ConnectionError.
NotConnected == "ConnectionError(RPCClient is not connected)"
ConnectFailed == "ConnectionError(Failed to connect to RabbitMQ)"
CloseFailed == "ConnectionError(Failed to close RabbitMQ connection)"

IsConnectionError(e) == e \in {NotConnected, ConnectFailed, CloseFailed}

\* aio_pika.exceptions: AMQPConnectionError and AMQPChannelError derive from
\* AMQPError, so "except AMQPError" catches all three.
IsAMQPError(e) == e \in {"AMQPError", "AMQPConnectionError", "AMQPChannelError"}

IsTimeout(e) == e = "TimeoutError"

(* ------------------------------ state --------------------------------- *)

VARIABLES
    _instances,   \* RPCClient._instances: url -> client, None when absent
    _locks,       \* RPCClient._locks: url -> asyncio.Lock (exists, locked, waiters)
    made,         \* the RPCClient objects constructed so far
    urlOf,        \* client -> the url of its config
    connection,   \* client -> self.connection (a transport connection or None)
    rpc,          \* client -> self.rpc, named by the channel the adaptor is bound to
    conns,        \* transport connection -> "unused" | "open" | "closed"
    chans,        \* channel -> [conn, closed]
    tasks         \* call -> its record

vars == <<_instances, _locks, made, urlOf, connection, rpc, conns, chans, tasks>>

client == <<made, urlOf, connection, rpc>>
registry == <<_instances, _locks>>
transport == <<conns, chans>>

IdleTask ==
    [op |-> "none", pc |-> "idle", id |-> None, inst |-> None, url |-> None, exc |-> "",
     ret |-> None, conn0 |-> FALSE, held0 |-> FALSE, c |-> None, ch |-> None,
     opens |-> 0, closes |-> 0, reqs |-> 0,
     rc |-> 0, attempts |-> 0, tmo |-> FALSE, cause |-> "", msg |-> "none",
     waited |-> FALSE]

NoLock == [exists |-> FALSE, locked |-> FALSE, waiters |-> <<>>]

\* Calls are numbered in the order in which they are made.  What call t makes
\* carries the number t + 1: the client it constructs, the connection and the
\* channel it opens (a call makes at most one of each).  What the initial
\* state holds carries the number 1.
IdOf(t) == t + 1

\* The is_connected property.
IsConnected(i) == rpc[i] # None /\ ~chans[rpc[i]].closed

\* Call t is made: the calls numbered before it have been made.  (Call 0, where
\* there is one, is the close() that runs beside the operations.)
Invoke(t) == tasks[t].pc = "idle" /\ (IF t <= 1 THEN TRUE ELSE tasks[t - 1].pc # "idle")

\* Call t stands at await p, and resumes.
At(t, p) == tasks[t].pc = p

\* The record of call t as it is made.
NewCall(t) == [IdleTask EXCEPT !.id = IdOf(t)]

\* The record of a call that has returned r (e = OK) or raised e: its locals are gone.
Finished(T, e, r) ==
    [T EXCEPT !.pc = "done", !.exc = e, !.ret = r, !.id = None, !.c = None,
              !.ch = None, !.tmo = FALSE, !.msg = "none"]

Done(t, e, r) == Finished(tasks[t], e, r)

(* --------------------------- the registry ----------------------------- *)

\* A create that leaves the lock held when it is over.
ReleaseNever(u) == _locks

\* asyncio.Lock.release: the lock is free again; the first waiter, if any, is
\* woken and takes the lock when it next runs (LockAcquired).
Release(u) == [_locks EXCEPT ![u].locked = FALSE]

\* A lock that never makes its caller wait: create without mutual exclusion.
LockNeverWaits(l) == TRUE

\* asyncio.Lock.acquire takes the lock at once only if it is free and nobody waits.
CanLockNow(l) == ~l.locked /\ l.waiters = <<>>

\* A create that also constructs anew when the registered client is not connected.
NeedsConstructionOrClosed(u) ==
    IF _instances[u] = None THEN TRUE
    ELSE rpc[_instances[u]] = None \/ chans[rpc[_instances[u]]].closed

\* The double-checked test of create, made while holding the lock.
NeedsConstruction(u) == _instances[u] = None

\* create, from the moment it holds the lock of url u up to its next await:
\* return the registered client, or construct a new one and start connect().
\* `lk` is the lock table with the lock taken by t.
UnderLock(t, u, lk, rec) ==
    IF ~NeedsConstruction(u)
    THEN /\ _locks' = [lk EXCEPT ![u].locked = FALSE]
         /\ tasks' = [tasks EXCEPT ![t] =
                Finished(rec, OK, _instances[u])]
         /\ UNCHANGED <<_instances, client, transport>>
    ELSE /\ _locks' = lk
         /\ made' = made \cup {rec.id}
         /\ urlOf' = [urlOf EXCEPT ![rec.id] = u]
         /\ tasks' = [tasks EXCEPT ![t] =
                [rec EXCEPT !.pc = "connect_robust", !.inst = rec.id,
                            !.opens = rec.opens + 1]]
         /\ UNCHANGED <<_instances, connection, rpc, transport>>

\* RPCClient.create(url=u), up to its first await.
StartCreate(t, u) ==
    /\ Invoke(t)
    /\ LET l0 == IF _locks[u].exists THEN _locks[u]
                 ELSE [exists |-> TRUE, locked |-> FALSE, waiters |-> <<>>]
           rec == [NewCall(t) EXCEPT !.op = "create", !.url = u,
                                   !.held0 = (_instances[u] # None)]
       IN IF CanLockNow(l0)
          THEN UnderLock(t, u, [_locks EXCEPT ![u] = [l0 EXCEPT !.locked = TRUE]], rec)
          ELSE /\ _locks' = [_locks EXCEPT ![u] =
                      [l0 EXCEPT !.waiters = Append(l0.waiters, t)]]
               /\ tasks' = [tasks EXCEPT ![t] =
                      [rec EXCEPT !.pc = "lock_wait", !.waited = TRUE]]
               /\ UNCHANGED <<_instances, client, transport>>

\* A create that waited for the lock of its url gets it.
LockAcquired(t) ==
    /\ At(t, "lock_wait")
    /\ LET u == tasks[t].url
           l == _locks[u]
       IN /\ ~l.locked
          /\ l.waiters # <<>>
          /\ Head(l.waiters) = t
          /\ UnderLock(t, u,
                 [_locks EXCEPT ![u] = [l EXCEPT !.locked = TRUE,
                                                 !.waiters = Tail(l.waiters)]],
                 tasks[t])

(* ----------------------------- connect -------------------------------- *)

\* The except clause of connect.
ConnectRaise(e) ==
    IF e \in {"AMQPConnectionError", "AMQPChannelError"} THEN ConnectFailed ELSE e

\* A registry that stores the instance whether or not its connect() succeeded.
RegisteredUnconnected(T, e) == [_instances EXCEPT ![T.url] = T.inst]

\* RPCClient._instances[url] = await RPCClient.__create_instance(...): the
\* assignment happens only if the await returns.
Registered(T, e) ==
    IF e = OK THEN [_instances EXCEPT ![T.url] = T.inst] ELSE _instances

\* What the caller of connect() does when connect() returns (e = OK) or raises e,
\* up to the end of the caller: create stores the client and releases the lock,
\* get_channel returns rpc.channel, reconnect and connect hand e on.
\* rpcNow is self.rpc as connect left it.
ConnectFinish(t, e, rpcNow) ==
    LET T == tasks[t]
    IN IF T.op = "create"
       THEN /\ _instances' = Registered(T, e)
            /\ _locks' = Release(T.url)
            /\ tasks' = [tasks EXCEPT ![t] =
                   Done(t, e, IF e = OK THEN T.inst ELSE None)]
       ELSE /\ tasks' = [tasks EXCEPT ![t] =
                   Done(t, e, IF e = OK /\ T.op = "get_channel" THEN rpcNow ELSE None)]
            /\ UNCHANGED registry

\* self.connection = await connect_robust(...)
ConnectRobust(t) ==
    /\ At(t, "connect_robust")
    /\ LET i == tasks[t].inst
           c == tasks[t].id
       IN \/ /\ conns' = [conns EXCEPT ![c] = "open"]
             /\ connection' = [connection EXCEPT ![i] = c]
             /\ tasks' = [tasks EXCEPT ![t].pc = "channel"]
             /\ UNCHANGED <<registry, made, urlOf, rpc, chans>>
          \/ \E e \in {"AMQPConnectionError", "OSError"} :
             /\ ConnectFinish(t, ConnectRaise(e), rpc[i])
             /\ UNCHANGED <<client, transport>>

\* channel = await self.connection.channel()
ConnChannel(t) ==
    /\ At(t, "channel")
    /\ LET i == tasks[t].inst
           c == connection[i]
       IN IF c = None
          THEN /\ ConnectFinish(t, "AttributeError", rpc[i])
               /\ UNCHANGED <<client, transport>>
          ELSE \/ /\ conns[c] = "open"
                  /\ chans' = [chans EXCEPT ![tasks[t].id] = [conn |-> c, closed |-> FALSE]]
                  /\ tasks' = [tasks EXCEPT ![t].pc = "rpc_create", ![t].ch = tasks[t].id]
                  /\ UNCHANGED <<registry, client, conns>>
               \/ \E e \in {"AMQPChannelError"} :
                  /\ ConnectFinish(t, ConnectRaise(e), rpc[i])
                  /\ UNCHANGED <<client, transport>>

\* self.rpc = await self.rpc_cls.create(channel); self.rpc.loop = self.loop
RpcCreate(t) ==
    /\ At(t, "rpc_create")
    /\ LET i == tasks[t].inst
           h == tasks[t].ch
       IN \/ /\ ~chans[h].closed
             /\ rpc' = [rpc EXCEPT ![i] = h]
             /\ ConnectFinish(t, OK, h)
             /\ UNCHANGED <<made, urlOf, connection, transport>>
          \/ \E e \in {"AMQPChannelError"} :
             /\ ConnectFinish(t, ConnectRaise(e), rpc[i])
             /\ UNCHANGED <<client, transport>>

\* instance.connect(), called directly.
StartConnect(t, i) ==
    /\ Invoke(t)
    /\ i \in made
    /\ tasks' = [tasks EXCEPT ![t] =
           [NewCall(t) EXCEPT !.op = "connect", !.inst = i, !.pc = "connect_robust",
                     !.conn0 = IsConnected(i), !.held0 = (connection[i] # None),
                     !.opens = 1]]
    /\ UNCHANGED <<registry, client, transport>>

(* ------------------------ close and reconnect ------------------------- *)

\* The guard of close: "if self.connection".
CloseGuard(i) == connection[i] # None

\* A close that hands on what the transport raised, untranslated.
CloseRaiseUntranslated(e) == e

\* The except clause of close.
CloseRaise(e) == IF IsAMQPError(e) THEN CloseFailed ELSE e

\* close() and reconnect() up to their first await.  close() with no connection
\* returns at once; reconnect() then goes straight on to connect().
StartClose(t, i, o) ==
    /\ Invoke(t)
    /\ i \in made
    /\ o \in {"close", "reconnect"}
    /\ LET rec == [NewCall(t) EXCEPT !.op = o, !.inst = i,
                                   !.conn0 = IsConnected(i),
                                   !.held0 = (connection[i] # None)]
       IN tasks' = [tasks EXCEPT ![t] =
              IF CloseGuard(i)
              THEN [rec EXCEPT !.pc = "closing", !.c = connection[i], !.closes = 1]
              ELSE IF o = "close"
                   THEN Finished(rec, OK, None)
                   ELSE [rec EXCEPT !.pc = "connect_robust", !.opens = 1]]
    /\ UNCHANGED <<registry, client, transport>>

\* A close that empties the adaptor of every client: rpc kept on the class, not
\* on the instance.
ClearedEveryRpc(i) == [j \in Insts |-> None]

\* A close that keeps self.connection after closing it.
KeptConnection(i) == connection

\* What close() assigns once the transport close has returned.
ClearedRpc(i) == [rpc EXCEPT ![i] = None]
ClearedConnection(i) == [connection EXCEPT ![i] = None]

\* A reconnect that stops after close().
AfterCloseNoConnect(T) == Finished(T, OK, None)

\* The call after close() has returned: close is over, reconnect goes on to
\* connect().
AfterClose(T) ==
    IF T.op = "reconnect"
    THEN [T EXCEPT !.pc = "connect_robust", !.opens = @ + 1, !.c = None]
    ELSE Finished(T, OK, None)

\* A reconnect that goes on to connect() although close() raised.
ConnectAfterFailedClose(T, e) ==
    IF T.op = "reconnect"
    THEN [T EXCEPT !.pc = "connect_robust", !.opens = @ + 1, !.c = None, !.cause = e]
    ELSE Finished([T EXCEPT !.cause = e], CloseRaise(e), None)

\* The call after the transport close has raised e: close raises, and reconnect
\* hands on what close raises.
AfterCloseFailure(T, e) == Finished([T EXCEPT !.cause = e], CloseRaise(e), None)

\* await self.connection.close() returns or raises.
CloseDone(t) ==
    /\ At(t, "closing")
    /\ LET i == tasks[t].inst
           c == tasks[t].c
       IN \/ /\ conns' = [conns EXCEPT ![c] = "closed"]
             /\ chans' = [h \in Chans |->
                    IF chans[h].conn = c THEN [chans[h] EXCEPT !.closed = TRUE]
                    ELSE chans[h]]
             /\ rpc' = ClearedRpc(i)
             /\ connection' = ClearedConnection(i)
             /\ tasks' = [tasks EXCEPT ![t] = AfterClose(tasks[t])]
             /\ UNCHANGED <<registry, made, urlOf>>
          \/ \E e \in {"AMQPError", "AMQPConnectionError", "OSError"} :
             /\ tasks' = [tasks EXCEPT ![t] = AfterCloseFailure(tasks[t], e)]
             /\ UNCHANGED <<registry, client, transport>>

(* ---------------------------- get_channel ----------------------------- *)

\* get_channel(): connect() if not is_connected, then return self.rpc.channel.
StartGetChannel(t, i) ==
    /\ Invoke(t)
    /\ i \in made
    /\ LET rec == [NewCall(t) EXCEPT !.op = "get_channel", !.inst = i,
                                   !.conn0 = IsConnected(i),
                                   !.held0 = (connection[i] # None)]
       IN tasks' = [tasks EXCEPT ![t] =
              IF IsConnected(i)
              THEN Finished(rec, OK, rpc[i])
              ELSE [rec EXCEPT !.pc = "connect_robust", !.opens = 1]]
    /\ UNCHANGED <<registry, client, transport>>

(* --------------------------- the transport ---------------------------- *)

\* The broker or the network closes the channel of client i's adaptor.
ChannelDrop(i) ==
    /\ i \in made
    /\ IsConnected(i)
    /\ chans' = [chans EXCEPT ![rpc[i]].closed = TRUE]
    /\ UNCHANGED <<registry, client, conns, tasks>>

(* ----------------------- with_retry_and_timeout ----------------------- *)

\* The failures the executor answers with another attempt: a timeout or a
\* transport error.
Transient(e) == IsTimeout(e) \/ IsAMQPError(e)

\* An executor that counts retries, not attempts.
RetryOnceMore(attempts, retry_count, e) == Transient(e) /\ attempts <= retry_count

\* After a failed attempt: whether the executor attempts once more.
RetryAgain(attempts, retry_count, e) == Transient(e) /\ attempts < retry_count

\* The executor's deadline: with a timeout set, the wait for the operation can
\* end in a timeout failure.
Deadline(timeout) == IF timeout THEN {"TimeoutError"} ELSE {}

\* What another await of the operation handed to the executor can raise.  The
\* operation is one coroutine object, built once by the caller: awaiting it
\* again sends nothing; it fails as before or as an already-awaited coroutine.
ReAwait(cause) == {cause, "RuntimeError"}

(* ------------------------ the facades' handlers ----------------------- *)

RpcOps == {"send", "call"}
RegOps == {"register_event", "unregister_event"}
RetryOps == {"send", "call", "publish_event", "subscribe_event"}
AllOps == RetryOps \cup RegOps

\* A send / call that translates transport errors only.
RpcRaiseTransportOnly(e) == IF IsAMQPError(e) THEN "RPCError" ELSE e

\* The except clause of send and of call.
RpcRaise(e) == IF IsTimeout(e) \/ IsAMQPError(e) THEN "RPCError" ELSE e

\* The except clause of register_event and of unregister_event.
RegistrationRaise(e) ==
    IF IsAMQPError(e) \/ e = "ValueError" THEN "EventRegistrationError" ELSE e

\* The except clause of publish_event.
PublishEventRaise(e) ==
    IF IsTimeout(e) \/ IsAMQPError(e) THEN "EventPublishError" ELSE e

\* The except clause of subscribe_event.
SubscribeEventRaise(e) ==
    IF IsTimeout(e) \/ IsAMQPError(e) THEN "EventSubscribeError" ELSE e

\* The except clause of each public operation around what it awaits.
Wrap(o, e) ==
    CASE o \in RpcOps -> RpcRaise(e)
      [] o \in RegOps -> RegistrationRaise(e)
      [] o = "publish_event" -> PublishEventRaise(e)
      [] o = "subscribe_event" -> SubscribeEventRaise(e)
      [] OTHER -> e

\* The except clause of _publish.
PublishRaise(e) ==
    IF IsAMQPError(e) \/ e = "JSONDecodeError" THEN "EventPublishError" ELSE e

\* The except clause of _subscribe.
SubscribeRaise(e) ==
    IF IsAMQPError(e) \/ e = "ValueError" THEN "EventSubscribeError" ELSE e

\* The except clause of the coroutine behind operation o, if it has one.
Inner(o, e) ==
    CASE o = "publish_event" -> PublishRaise(e)
      [] o = "subscribe_event" -> SubscribeRaise(e)
      [] OTHER -> e

\* The payloads handed to publish_event: a dict of JSON values, a dict holding a
\* value json cannot encode (a set, a datetime), a pydantic model.
Messages == {"json_dict", "set_in_dict", "model"}

\* message.dict() for what is not a dict.
Normalize(m) == IF m = "model" THEN "json_dict" ELSE m

\* json.dumps(message): the text, or the exception it raises.
JsonDumps(m) ==
    IF m = "json_dict" THEN [exc |-> OK, body |-> "json_text"]
    ELSE [exc |-> "TypeError", body |-> ""]

\* The outcomes of one awaited transport request other than success: the
\* transport raises, or the executor's deadline passes first.
Failures(T) == {"AMQPError"} \cup Deadline(T.tmo)

\* What an attempt raises when its cause is e: a timeout comes from the
\* executor's deadline, anything else is raised inside the coroutine and
\* passes its except clause.
Raised(o, e) == IF IsTimeout(e) THEN e ELSE Inner(o, e)

\* A call site that hands the executor a way to make the request again: the
\* next attempt sends a fresh request.
FreshRequest(T, e) ==
    [T EXCEPT !.pc = IF T.op \in RpcOps THEN "reply" ELSE "op_channel",
              !.attempts = @ + 1, !.reqs = @ + 1, !.cause = e]

\* The call between two attempts.  What the call site handed to the executor is
\* one coroutine object (self.rpc.call(...), self._publish(...),
\* self._subscribe(...)), built once: after the failure with cause e it is
\* spent, and the call has nothing in flight while the executor goes on.
Spent(T, e) == [T EXCEPT !.pc = "retry", !.cause = e, !.c = None, !.ch = None]

\* The record of a call after an attempt of its operation has failed with
\* cause e: the executor retries, or gives the failure to the operation's handler.
AfterFailure(T, e) ==
    IF T.op \in RetryOps /\ RetryAgain(T.attempts, T.rc, Raised(T.op, e))
    THEN Spent(T, e)
    ELSE Finished([T EXCEPT !.cause = e], Wrap(T.op, Raised(T.op, e)), None)

\* A connectivity test that drops an adaptor whose channel it finds closed.
DropStaleAdaptor(i) ==
    IF rpc[i] # None /\ chans[rpc[i]].closed THEN [rpc EXCEPT ![i] = None] ELSE rpc

\* self.rpc after the connectivity test of an operation on client i: the test
\* reads is_connected and assigns nothing.
AfterCheck(i) == rpc

\* A connectivity test that looks at the adaptor only, not at its channel.
AdaptorPresent(i) == rpc[i] # None

\* The connectivity test that opens every operation.
Precondition(i) == IsConnected(i)

\* The first attempt of the coroutine of operation o on client i, up to its
\* first await.  rec is the task record with the call's arguments.
FirstAttempt(rec, i) ==
    LET T == [rec EXCEPT !.attempts = 1]
    IN CASE T.op \in RpcOps \cup RegOps ->
              \* self.rpc.call / register / unregister on the adaptor held now
              [T EXCEPT !.pc = "reply", !.ch = rpc[i], !.reqs = 1]
         [] OTHER ->
              \* _publish, _subscribe: channel = await self.connection.channel()
              IF connection[i] = None
              THEN AfterFailure(T, "AttributeError")
              ELSE [T EXCEPT !.pc = "op_channel", !.c = connection[i], !.reqs = 1]

\* send, call, register_event, unregister_event, publish_event, subscribe_event
\* up to their first await.
StartOp(t, i, o, retry_count, timeout, m) ==
    /\ Invoke(t)
    /\ i \in made
    /\ o \in AllOps
    /\ LET rec == [NewCall(t) EXCEPT !.op = o, !.inst = i,
                                   !.conn0 = IsConnected(i),
                                   !.held0 = (connection[i] # None)]
       IN tasks' = [tasks EXCEPT ![t] =
              IF ~Precondition(i)
              THEN Finished(rec, NotConnected, None)
              ELSE FirstAttempt([rec EXCEPT !.rc = retry_count, !.tmo = timeout,
                                            !.msg = Normalize(m)], i)]
    /\ rpc' = AfterCheck(i)
    /\ UNCHANGED <<registry, made, urlOf, connection, transport>>

\* The adaptor's answer to rpc.call, rpc.register or rpc.unregister.
Reply(t) ==
    /\ At(t, "reply")
    /\ LET T == tasks[t]
       IN \/ /\ ~chans[T.ch].closed
             /\ tasks' = [tasks EXCEPT ![t] =
                    Finished(T, OK, IF T.op = "call" THEN 1 ELSE None)]
          \/ \E e \in Failures(T) \cup
                      (IF T.op \in RegOps THEN {"ValueError"} ELSE {"RemoteError"}) :
             tasks' = [tasks EXCEPT ![t] = AfterFailure(T, e)]
    /\ UNCHANGED <<registry, client, transport>>

\* The executor awaits the same operation again.
Retry(t) ==
    /\ At(t, "retry")
    /\ LET T == [tasks[t] EXCEPT !.attempts = @ + 1]
       IN \E e \in ReAwait(T.cause) :
             tasks' = [tasks EXCEPT ![t] = AfterFailure(T, e)]
    /\ UNCHANGED <<registry, client, transport>>

\* _publish and _subscribe: connection.channel() answers; on success the
\* exchange is declared on the new channel.
OpChannel(t) ==
    /\ At(t, "op_channel")
    /\ LET T == tasks[t]
       IN \/ /\ conns[T.c] = "open"
             /\ chans' = [chans EXCEPT ![T.id] = [conn |-> T.c, closed |-> FALSE]]
             /\ tasks' = [tasks EXCEPT ![t] =
                    [T EXCEPT !.pc = "op_exchange", !.ch = T.id, !.reqs = @ + 1]]
          \/ \E e \in Failures(T) :
             /\ tasks' = [tasks EXCEPT ![t] = AfterFailure(T, e)]
             /\ UNCHANGED chans
    /\ UNCHANGED <<registry, client, conns>>

\* declare_exchange answers.  _publish then builds the Message (json.dumps) and
\* publishes it; _subscribe declares the queue.
OpExchange(t) ==
    /\ At(t, "op_exchange")
    /\ LET T == tasks[t]
           js == JsonDumps(T.msg)
       IN \/ /\ ~chans[T.ch].closed
             /\ tasks' = [tasks EXCEPT ![t] =
                    IF T.op = "subscribe_event"
                    THEN [T EXCEPT !.pc = "op_queue", !.reqs = @ + 1]
                    ELSE IF js.exc = OK
                         THEN [T EXCEPT !.pc = "op_publish", !.reqs = @ + 1]
                         ELSE AfterFailure(T, js.exc)]
          \/ \E e \in Failures(T) :
             tasks' = [tasks EXCEPT ![t] = AfterFailure(T, e)]
    /\ UNCHANGED <<registry, client, transport>>

\* exchange.publish answers: the end of _publish.
OpPublish(t) ==
    /\ At(t, "op_publish")
    /\ LET T == tasks[t]
       IN \/ /\ ~chans[T.ch].closed
             /\ tasks' = [tasks EXCEPT ![t] = Finished(T, OK, None)]
          \/ \E e \in Failures(T) :
             tasks' = [tasks EXCEPT ![t] = AfterFailure(T, e)]
    /\ UNCHANGED <<registry, client, transport>>

\* declare_queue answers.  _subscribe then evaluates queue.bind(exchange, event):
\* the name `event` is bound nowhere in _subscribe or in the module.
OpQueue(t) ==
    /\ At(t, "op_queue")
    /\ LET T == tasks[t]
       IN \/ /\ ~chans[T.ch].closed
             /\ tasks' = [tasks EXCEPT ![t] = AfterFailure(T, "NameError")]
          \/ \E e \in Failures(T) :
             tasks' = [tasks EXCEPT ![t] = AfterFailure(T, e)]
    /\ UNCHANGED <<registry, client, transport>>

(* --------------------------- specifications --------------------------- *)

\* The state of the client fields, the registry and the transport with no
\* client yet, and with one client.
NoClient ==
    /\ _instances = [u \in Urls |-> None]
    /\ _locks = [u \in Urls |-> NoLock]
    /\ made = {}
    /\ urlOf = [i \in Insts |-> None]
    /\ connection = [i \in Insts |-> None]
    /\ rpc = [i \in Insts |-> None]
    /\ conns = [c \in Conns |-> "unused"]
    /\ chans = [h \in Chans |-> [conn |-> None, closed |-> FALSE]]

\* One client of url 1, as a first RPCClient.create(url) and then close() leave
\* it: registered, its first connection and channel closed, its fields empty.
ClosedClient ==
    /\ _instances = [u \in Urls |-> IF u = 1 THEN 1 ELSE None]
    /\ _locks = [u \in Urls |-> IF u = 1 THEN [NoLock EXCEPT !.exists = TRUE] ELSE NoLock]
    /\ made = {1}
    /\ urlOf = [i \in Insts |-> IF i = 1 THEN 1 ELSE None]
    /\ connection = [i \in Insts |-> None]
    /\ rpc = [i \in Insts |-> None]
    /\ conns = [c \in Conns |-> IF c = 1 THEN "closed" ELSE "unused"]
    /\ chans = [h \in Chans |-> IF h = 1 THEN [conn |-> 1, closed |-> TRUE]
                                ELSE [conn |-> None, closed |-> FALSE]]

\* One client of url 1, as a first RPCClient.create(url) returns it: registered,
\* its lock released, connection 1 open and the adaptor bound to channel 1 on it.
CreatedClient ==
    /\ _instances = [u \in Urls |-> IF u = 1 THEN 1 ELSE None]
    /\ _locks = [u \in Urls |-> IF u = 1 THEN [NoLock EXCEPT !.exists = TRUE] ELSE NoLock]
    /\ made = {1}
    /\ urlOf = [i \in Insts |-> IF i = 1 THEN 1 ELSE None]
    /\ connection = [i \in Insts |-> IF i = 1 THEN 1 ELSE None]
    /\ rpc = [i \in Insts |-> IF i = 1 THEN 1 ELSE None]
    /\ conns = [c \in Conns |-> IF c = 1 THEN "open" ELSE "unused"]
    /\ chans = [h \in Chans |-> IF h = 1 THEN [conn |-> 1, closed |-> FALSE]
                                ELSE [conn |-> None, closed |-> FALSE]]

\* The registry: callers racing on create, and closes of the clients made.
Init ==
    /\ NoClient
    /\ tasks = [t \in 1..NCallers |-> IdleTask]

Next ==
    \/ \E t \in DOMAIN tasks, u \in Urls : StartCreate(t, u)
    \/ \E t \in DOMAIN tasks : LockAcquired(t)
    \/ \E t \in DOMAIN tasks : ConnectRobust(t)
    \/ \E t \in DOMAIN tasks : ConnChannel(t)
    \/ \E t \in DOMAIN tasks : RpcCreate(t)
    \/ \E t \in DOMAIN tasks, u \in Urls :
          _instances[u] # None /\ StartClose(t, _instances[u], "close")
    \/ \E t \in DOMAIN tasks : CloseDone(t)

Spec == Init /\ [][Next]_vars

\* The registry with its scheduling: the event loop runs a create that was woken
\* with the lock free, and every request of a connect attempt is answered.
Fairness ==
    \A t \in 1..NCallers :
       /\ WF_vars(LockAcquired(t))
       /\ WF_vars(ConnectRobust(t))
       /\ WF_vars(ConnChannel(t))
       /\ WF_vars(RpcCreate(t))

SpecFair == Init /\ [][Next]_vars /\ Fairness

\* The lifecycle of one client: connect, close, reconnect, get_channel and call
\* interleaved on it, with the transport dropping the adaptor's channel.
InitLife ==
    /\ CreatedClient \/ ClosedClient
    /\ tasks = [t \in 1..NLife |-> IdleTask]

NextLife ==
    \/ \E t \in DOMAIN tasks : StartConnect(t, 1)
    \/ \E t \in DOMAIN tasks, o \in {"close", "reconnect"} : StartClose(t, 1, o)
    \/ \E t \in DOMAIN tasks : StartGetChannel(t, 1)
    \/ \E t \in DOMAIN tasks : StartOp(t, 1, "call", 1, FALSE, "json_dict")
    \/ \E t \in DOMAIN tasks : ConnectRobust(t)
    \/ \E t \in DOMAIN tasks : ConnChannel(t)
    \/ \E t \in DOMAIN tasks : RpcCreate(t)
    \/ \E t \in DOMAIN tasks : CloseDone(t)
    \/ \E t \in DOMAIN tasks : Reply(t)
    \/ ChannelDrop(1)

SpecLife == InitLife /\ [][NextLife]_vars

\* The arguments an operation reads: retry_count and timeout where it runs under
\* the executor, the message where it publishes one.
RetryCounts(o) == IF o \in RetryOps THEN 1..MaxRetry ELSE {0}
Timeouts(o) == IF o \in RetryOps THEN BOOLEAN ELSE {FALSE}
MessagesOf(o) == IF o = "publish_event" THEN Messages ELSE {"json_dict"}

\* The operations of one client, each under the executor, with a close and the
\* transport dropping the adaptor's channel.
InitOps ==
    /\ CreatedClient \/ ClosedClient
    /\ tasks = [t \in 0..NOps |-> IdleTask]

NextOps ==
    \/ \E t \in 1..NOps, o \in AllOps :
          \E n \in RetryCounts(o), d \in Timeouts(o), m \in MessagesOf(o) :
             StartOp(t, 1, o, n, d, m)
    \/ StartClose(0, 1, "close")
    \/ \E t \in DOMAIN tasks : Reply(t)
    \/ \E t \in DOMAIN tasks : Retry(t)
    \/ \E t \in DOMAIN tasks : OpChannel(t)
    \/ \E t \in DOMAIN tasks : OpExchange(t)
    \/ \E t \in DOMAIN tasks : OpPublish(t)
    \/ \E t \in DOMAIN tasks : OpQueue(t)
    \/ \E t \in DOMAIN tasks : CloseDone(t)
    \/ ChannelDrop(1)

SpecOps == InitOps /\ [][NextOps]_vars

\* Two clients: the first two calls are creates, the others are connect, close
\* and reconnect on the clients registered so far.
InitPair ==
    /\ NoClient
    /\ tasks = [t \in 1..NPair |-> IdleTask]

NextPair ==
    \/ \E t \in DOMAIN tasks, u \in Urls : t <= 2 /\ StartCreate(t, u)
    \/ \E t \in DOMAIN tasks, u \in Urls :
          t > 2 /\ _instances[u] # None /\ StartConnect(t, _instances[u])
    \/ \E t \in DOMAIN tasks, u \in Urls, o \in {"close", "reconnect"} :
          t > 2 /\ _instances[u] # None /\ StartClose(t, _instances[u], o)
    \/ \E t \in DOMAIN tasks : LockAcquired(t)
    \/ \E t \in DOMAIN tasks : ConnectRobust(t)
    \/ \E t \in DOMAIN tasks : ConnChannel(t)
    \/ \E t \in DOMAIN tasks : RpcCreate(t)
    \/ \E t \in DOMAIN tasks : CloseDone(t)

SpecPair == InitPair /\ [][NextPair]_vars

(* ============================ properties ============================== *)

ConnectStages == {"connect_robust", "channel", "rpc_create"}

\* The calls of operation o that have returned or raised.
DoneCalls(o) == {t \in DOMAIN tasks : tasks[t].op = o /\ tasks[t].pc = "done"}

\* The create calls for url u that are constructing a client, that returned one,
\* and that raised.
Building(u) ==
    {t \in DOMAIN tasks : tasks[t].op = "create" /\ tasks[t].url = u
                             /\ tasks[t].pc \in ConnectStages}
Got(u) == {t \in DoneCalls("create") : tasks[t].url = u /\ tasks[t].exc = OK}
Failed(u) == {t \in DoneCalls("create") : tasks[t].url = u /\ tasks[t].exc # OK}

\* No close() has been called on client i.
NeverClosed(i) == \A t \in DOMAIN tasks : ~(tasks[t].op = "close" /\ tasks[t].inst = i)

(* ------------------------------- C1 ----------------------------------- *)

\* C1: however many create calls race on one url, at most one of them is
\* constructing at any time and none once a client is registered; the clients
\* constructed for the url are one per failed construction plus exactly one
\* for the successful one; every caller that returns gets the registered
\* client, so all get the identical one; and that client is connected (until
\* somebody closes it): its connection is open and its adaptor is bound to an
\* open channel of that connection.
C1_SingletonCreate ==
    \A u \in Urls :
       LET i == _instances[u]
       IN /\ Cardinality(Building(u)) <= 1
          /\ i # None => Building(u) = {}
          /\ Cardinality({j \in made : urlOf[j] = u})
                = Cardinality(Failed(u)) + Cardinality(Building(u))
                  + (IF i # None THEN 1 ELSE 0)
          /\ \A t \in Got(u) : tasks[t].ret = i /\ i # None
          /\ \A t1, t2 \in Got(u) : tasks[t1].ret = tasks[t2].ret
          /\ (i # None /\ NeverClosed(i)) =>
                /\ connection[i] # None /\ conns[connection[i]] = "open"
                /\ rpc[i] # None /\ chans[rpc[i]] = [conn |-> connection[i], closed |-> FALSE]

\* All NCallers calls raced on url 1 (all but the first waited for the lock while
\* the first was constructing), every one returned, and they hold one client.
C1_Witness ==
    /\ \A t \in DOMAIN tasks : t \in Got(1)
    /\ \A t \in DOMAIN tasks : t > 1 => tasks[t].waited
    /\ Cardinality({tasks[t].ret : t \in DOMAIN tasks}) = 1
    /\ Cardinality(made) = 1

(* ------------------------------- C2 ----------------------------------- *)

\* C2: a create whose construction failed raised the failure to its caller and
\* returned nothing; the client it was building is in no registry entry and was
\* never usable (no adaptor), and no caller of create ever got it; the lock of
\* the url is held only while somebody constructs, so the next create for the
\* url is not blocked; and as long as no create has succeeded for the url there
\* is no entry for it, so the next create under the lock constructs anew.
C2_FailedCreateNotStored ==
    \A u \in Urls :
       /\ \A t \in Failed(u) :
             /\ tasks[t].exc \in {ConnectFailed, "OSError", "AttributeError"}
             /\ tasks[t].ret = None
             /\ tasks[t].inst \in made
             /\ \A v \in Urls : _instances[v] # tasks[t].inst
             /\ rpc[tasks[t].inst] = None
             /\ \A t2 \in DOMAIN tasks :
                   tasks[t2].op = "create" /\ tasks[t2].ret # None
                       => tasks[t2].ret # tasks[t].inst
       /\ _locks[u].locked => Building(u) # {}
       /\ Got(u) = {} => _instances[u] = None
       /\ \A t \in Got(u) : tasks[t].ret \notin {tasks[f].inst : f \in Failed(u)}

\* A create for url 1 failed with the connection error, and a later create for
\* url 1 constructed a second client, connected it and returned it.
C2_Witness ==
    \E t1, t2 \in DOMAIN tasks :
       /\ t1 < t2
       /\ t1 \in Failed(1) /\ tasks[t1].exc = ConnectFailed
       /\ t2 \in Got(1) /\ tasks[t2].inst = tasks[t2].ret
       /\ tasks[t2].ret # tasks[t1].inst
       /\ _instances[1] = tasks[t2].ret
       /\ IsConnected(tasks[t2].ret)

(* ------------------------------- C3 ----------------------------------- *)

\* C3: a send, call, register_event, unregister_event, publish_event or
\* subscribe_event made while is_connected is false has, as soon as it is
\* made, raised the ConnectionError "RPCClient is not connected" (the
\* NotConnected kind): it returned nothing, made no attempt and sent no request
\* to the transport.
C3_NotConnectedNoIO ==
    \A t \in DOMAIN tasks :
       (tasks[t].op \in AllOps /\ ~tasks[t].conn0) =>
          /\ tasks[t].pc = "done"
          /\ tasks[t].exc = NotConnected
          /\ tasks[t].ret = None
          /\ tasks[t].attempts = 0
          /\ tasks[t].reqs = 0

\* An operation was refused on a client that still holds its connection and its
\* adaptor, the adaptor's channel being closed.
C3_Witness ==
    \E t \in DOMAIN tasks :
       /\ tasks[t].op \in AllOps /\ ~tasks[t].conn0
       /\ tasks[t].pc = "done" /\ tasks[t].exc = NotConnected
       /\ connection[tasks[t].inst] # None /\ rpc[tasks[t].inst] # None

(* ------------------------------- C4 ----------------------------------- *)

\* What C4 asks of every step.
C4_Step ==
    \A t \in DOMAIN tasks :
       LET T == tasks[t]
           T2 == tasks'[t]
       IN \* the step in which close() returns after closing the connection
          /\ (T.op = "close" /\ T.pc = "closing" /\ T2.pc = "done" /\ T2.exc = OK)
                => ~IsConnected(T.inst)'
          \* the step in which reconnect() returns
          /\ (T.op = "reconnect" /\ T.pc # "done" /\ T2.pc = "done" /\ T2.exc = OK)
                => IsConnected(T.inst)'
          \* a call made while is_connected is true is sent on the adaptor's channel
          /\ (T.pc = "idle" /\ T2.op = "call" /\ IsConnected(T2.inst))
                => (T2.pc = "reply" /\ T2.reqs = 1 /\ T2.ch = rpc[T2.inst])
          \* and returns the reply when the adaptor answers
          /\ (T.op = "call" /\ T.pc = "reply" /\ T2.pc = "done" /\ T2.exc = OK)
                => (T2.ret = 1 /\ ~chans[T.ch].closed)

\* C4: when close() returns after closing the connection of the client,
\* is_connected is false; when a reconnect() returns without raising,
\* is_connected is true; a call made while is_connected is true is sent on the
\* adaptor's channel and returns the reply the adaptor gives.
C4_CloseThenReconnect == [][C4_Step]_vars

\* The client was closed (its first connection is closed), a reconnect() made
\* while it was disconnected returned, and a call made after it returned a reply.
C4_Witness ==
    /\ conns[1] = "closed"
    /\ \E t1, t2 \in DOMAIN tasks :
          /\ t1 < t2
          /\ tasks[t1].op = "reconnect" /\ tasks[t1].pc = "done" /\ tasks[t1].exc = OK
          /\ ~tasks[t1].conn0
          /\ tasks[t2].op = "call" /\ tasks[t2].pc = "done" /\ tasks[t2].exc = OK
          /\ tasks[t2].conn0 /\ tasks[t2].ret = 1
          /\ IsConnected(1)

(* ------------------------------- C5 ----------------------------------- *)

\* What C5 asks of every step.
C5_Step ==
    \A t \in DOMAIN tasks :
       LET T == tasks[t]
           T2 == tasks'[t]
       IN \* close() on a client that holds a connection asks the transport to close it
          /\ (T.pc = "idle" /\ T2.op = "close" /\ connection[T2.inst] # None)
                => (T2.pc = "closing" /\ T2.c = connection[T2.inst] /\ T2.closes = 1)
          \* and when that has returned, the connection is closed and both fields are empty
          /\ (T.op = "close" /\ T.pc = "closing" /\ T2.pc = "done" /\ T2.exc = OK)
                => /\ conns'[T.c] = "closed"
                   /\ connection'[T.inst] = None
                   /\ rpc'[T.inst] = None
          \* close() on a client that holds no connection
          /\ (T.pc = "idle" /\ T2.op = "close" /\ connection[T2.inst] = None)
                => /\ T2.pc = "done" /\ T2.exc = OK /\ T2.closes = 0
                   /\ UNCHANGED <<registry, client, transport>>

\* C5: close() on a client that holds a connection closes that transport
\* connection and, when it returns, has left self.connection and self.rpc empty;
\* close() on a client that holds no connection (never connected, or closed
\* before) returns at once without raising, asks nothing of the transport and
\* changes neither the client, the registry nor the transport.
C5_CloseClearsAndIsIdempotent == [][C5_Step]_vars

\* A close() of the connected client closed its connection, and a second
\* close() after it returned without a transport close.
C5_Witness ==
    \E t1, t2 \in DOMAIN tasks :
       /\ t1 < t2
       /\ tasks[t1].op = "close" /\ tasks[t1].pc = "done" /\ tasks[t1].exc = OK
       /\ tasks[t1].conn0 /\ tasks[t1].closes = 1
       /\ tasks[t2].op = "close" /\ tasks[t2].pc = "done" /\ tasks[t2].exc = OK
       /\ ~tasks[t2].held0 /\ tasks[t2].closes = 0
       /\ conns[1] = "closed" /\ connection[1] = None /\ rpc[1] = None

(* ------------------------------- C6 ----------------------------------- *)

\* What C6 asks of every step.
C6_Step ==
    \A t \in DOMAIN tasks :
       LET T == tasks[t]
           T2 == tasks'[t]
       IN (T.op = "close" /\ T.pc = "closing" /\ T2.pc = "done" /\ T2.exc # OK)
             => /\ IsAMQPError(T2.cause) => T2.exc = CloseFailed
                /\ ~IsAMQPError(T2.exc)
                /\ UNCHANGED <<connection, rpc, conns, chans>>
                /\ IsConnected(T.inst) => IsConnected(T.inst)'

\* C6: when the transport's close fails inside close() with a transport (AMQP)
\* error, the caller gets the ConnectionError "Failed to close RabbitMQ
\* connection", never the raw transport error; and whatever the transport
\* raised, self.connection and self.rpc (and the transport) are as they were
\* before the call, so a connected client is still connected.
C6_CloseFailureKeepsState == [][C6_Step]_vars

\* A close() of the connected client failed with the ConnectionError and left
\* it connected; a second close() then closed the connection.
C6_Witness ==
    \E t1, t2 \in DOMAIN tasks :
       /\ t1 < t2
       /\ tasks[t1].op = "close" /\ tasks[t1].pc = "done"
       /\ tasks[t1].exc = CloseFailed /\ tasks[t1].conn0
       /\ tasks[t2].op = "close" /\ tasks[t2].pc = "done" /\ tasks[t2].exc = OK
       /\ tasks[t2].conn0 /\ tasks[t2].closes = 1
       /\ connection[1] = None

(* ------------------------------- C7 ----------------------------------- *)

\* What C7 asks of every step.
C7_Step ==
    \A t \in DOMAIN tasks :
       LET T == tasks[t]
           T2 == tasks'[t]
       IN T2.op = "reconnect" =>
             \* reconnect() starts with close(): the transport close where a
             \* connection is held, nothing where none is
             /\ (T.pc = "idle" /\ T2.pc # "idle") =>
                   IF connection[T2.inst] # None
                   THEN T2.pc = "closing" /\ T2.closes = 1 /\ T2.opens = 0
                   ELSE T2.pc = "connect_robust" /\ T2.closes = 0 /\ T2.opens = 1
             \* close() returns or raises, nothing else
             /\ (T.pc = "closing" /\ T2.pc # "closing") =>
                   T2.pc \in {"connect_robust", "done"}
             \* connect() starts in the step in which close() returns
             /\ (T.pc = "closing" /\ T2.pc = "connect_robust") =>
                   /\ conns'[T.c] = "closed"
                   /\ connection'[T.inst] = None /\ rpc'[T.inst] = None
                   /\ T2.opens = 1
             \* if close() raises, reconnect() raises the same and opens nothing
             /\ (T.pc = "closing" /\ T2.pc = "done") =>
                   /\ T2.exc = CloseRaise(T2.cause) /\ T2.exc # OK
                   /\ T2.opens = 0
                   /\ UNCHANGED <<client, transport>>
             \* connect() is attempted at most once
             /\ T2.opens <= 1

\* C7: reconnect() first runs close() and only in the step in which close() has
\* returned goes on to connect(), once; if close() raises, reconnect() raises
\* what close() raised, has attempted no connect and leaves the client and the
\* transport as they were.
C7_ReconnectClosesThenConnects == [][C7_Step]_vars

\* One reconnect() stopped at the failure of close() without opening anything;
\* a second one closed the connection, opened a new one and returned.
C7_Witness ==
    \E t1, t2 \in DOMAIN tasks :
       /\ t1 < t2
       /\ tasks[t1].op = "reconnect" /\ tasks[t1].pc = "done"
       /\ tasks[t1].exc = CloseFailed /\ tasks[t1].opens = 0
       /\ tasks[t2].op = "reconnect" /\ tasks[t2].pc = "done" /\ tasks[t2].exc = OK
       /\ tasks[t2].closes = 1 /\ tasks[t2].opens = 1
       /\ conns[1] = "closed" /\ connection[1] # None /\ conns[connection[1]] = "open"

(* ------------------------------- C8 ----------------------------------- *)

\* What the executor saw of the failure that call t keeps as its cause.
Surfaced(t) == Raised(tasks[t].op, tasks[t].cause)

C9_RpcFailureIsRPCError ==
    \A t \in DoneCalls("send") \cup DoneCalls("call") :
       tasks[t].conn0 =>
          /\ (IsTimeout(tasks[t].cause) \/ IsAMQPError(tasks[t].cause))
                => tasks[t].exc = "RPCError"
          /\ ~IsTimeout(tasks[t].exc)
          /\ ~IsAMQPError(tasks[t].exc)

\* A call on the connected client timed out at its only attempt and raised RPCError.
C9_Witness ==
    \E t \in DoneCalls("call") :
       /\ tasks[t].conn0 /\ tasks[t].rc = 1 /\ tasks[t].attempts = 1
       /\ IsTimeout(tasks[t].cause)
       /\ tasks[t].exc = "RPCError"

(* ------------------------------- C10 ---------------------------------- *)

\* C10: a publish_event made on a connected client that failed because of a
\* transport error, a timeout, or because json.dumps could not serialise the
\* message, has raised EventPublishError.
C10_PublishFailureIsEventPublishError ==
    \A t \in DoneCalls("publish_event") :
       (tasks[t].conn0 /\ tasks[t].cause \in {"AMQPError", "TimeoutError", "TypeError"})
          => tasks[t].exc = "EventPublishError"

(* ------------------------------- C11 ---------------------------------- *)

\* C11: a subscribe_event made on a connected client, none of whose transport
\* requests failed or timed out, has returned without error after declaring
\* the exchange and the queue, binding and consuming; and whatever failure a
\* subscribe_event at its first attempt reports is EventSubscribeError.
C11_SubscribeCompletes ==
    \A t \in DoneCalls("subscribe_event") :
       (tasks[t].conn0 /\ tasks[t].attempts = 1) =>
          /\ tasks[t].exc \in {OK, "EventSubscribeError"}
          /\ (~IsAMQPError(tasks[t].cause) /\ ~IsTimeout(tasks[t].cause))
                => tasks[t].exc = OK

(* ------------------------------- C12 ---------------------------------- *)

\* What C12 asks of every step.
C12_Step ==
    /\ \A u \in Urls : _instances[u] # None => _instances'[u] = _instances[u]
    /\ \A t \in DOMAIN tasks :
          LET T == tasks[t]
              T2 == tasks'[t]
          IN (T2.op = "create" /\ T2.held0) =>
                \* it constructs nothing and connects nothing
                /\ T2.inst = None /\ T2.opens = 0
                /\ T2.pc \in {"lock_wait", "done"}
                \* and the step in which it returns gives the entry and touches
                \* neither the clients nor the transport
                /\ (T.pc # "done" /\ T2.pc = "done") =>
                      /\ T2.exc = OK /\ T2.ret = _instances[T2.url]
                      /\ UNCHANGED <<_instances, client, transport>>

\* C12: an entry of the registry, once stored, is never removed or replaced;
\* a create for a url that has an entry constructs no client and opens no
\* connection, and returns that entry leaving clients and transport untouched,
\* whether or not the entry is still connected.
C12_EntryReturnedAndKept == [][C12_Step]_vars

\* A create returned the registered client of url 1 after that client had been
\* closed: the caller holds a disconnected instance.
C12_Witness ==
    \E t, k \in DOMAIN tasks :
       /\ tasks[t].op = "create" /\ tasks[t].held0 /\ tasks[t].pc = "done"
       /\ tasks[t].ret = _instances[1] /\ tasks[t].ret # None
       /\ tasks[k].op = "close" /\ tasks[k].pc = "done" /\ tasks[k].exc = OK
       /\ tasks[k].inst = tasks[t].ret /\ k < t
       /\ ~IsConnected(tasks[t].ret) /\ connection[tasks[t].ret] = None

(* ------------------------------- C13 ---------------------------------- *)

\* What C13 asks of every step.
C13_Step ==
    \* the entries of two urls are two clients
    /\ \A u, v \in Urls :
          (u # v /\ _instances'[u] # None /\ _instances'[v] # None)
             => _instances'[u] # _instances'[v]
    \* a step of connect, close or reconnect on one client leaves every other
    \* client's fields and connectivity as they were
    /\ \A t \in DOMAIN tasks :
          (tasks'[t] # tasks[t] /\ tasks'[t].op \in {"connect", "close", "reconnect"}) =>
             \A j \in made \ {tasks'[t].inst} :
                /\ connection'[j] = connection[j]
                /\ rpc'[j] = rpc[j]
                /\ IsConnected(j)' = IsConnected(j)

\* C13: creates for two different urls register two distinct clients, and no
\* step of a connect, close or reconnect on one client changes another
\* client's connection field, adaptor field or is_connected.
C13_ClientsIndependent == [][C13_Step]_vars

\* Two urls have two clients; the one of url 1 was closed and is disconnected,
\* the one of url 2 is still connected.
C13_Witness ==
    /\ _instances[1] # None /\ _instances[2] # None /\ _instances[1] # _instances[2]
    /\ \E t \in DoneCalls("close") : tasks[t].inst = _instances[1] /\ tasks[t].exc = OK
                                      /\ tasks[t].closes = 1
    /\ ~IsConnected(_instances[1])
    /\ IsConnected(_instances[2])

(* ------------------------------- C14 ---------------------------------- *)

\* What C14 asks of every step.
C14_Step ==
    \A t \in DOMAIN tasks :
       LET T == tasks[t]
           T2 == tasks'[t]
       IN T2.op \in RetryOps =>
             \* every request of the operation is sent at most once: the adaptor
             \* call; or the channel, the exchange and the publish / the queue
             /\ T2.reqs <= (IF T2.op \in RpcOps THEN 1 ELSE 3)
             \* from the second attempt on the call sends nothing
             /\ T2.attempts > 1 => T2.reqs = T.reqs
             \* and its steps between attempts leave the transport alone
             /\ (T.pc = "retry" /\ T2 # T) => UNCHANGED transport

\* C14: whatever retry_count is, one send, call, publish_event or
\* subscribe_event sends each of its transport requests at most once; the
\* attempts after the first send nothing and change nothing in the transport.
C14_RequestIssuedOnce == [][C14_Step]_vars

\* A call with the largest retry_count made all its attempts and failed,
\* having sent its request once.
C14_Witness ==
    \E t \in DoneCalls("call") :
       /\ tasks[t].conn0 /\ tasks[t].rc = MaxRetry /\ MaxRetry > 1
       /\ tasks[t].attempts = MaxRetry
       /\ tasks[t].reqs = 1
       /\ tasks[t].exc # OK

(* ------------------------------- C15 ---------------------------------- *)

\* C15: the channel a publish_event or subscribe_event works on is the channel
\* of the client's adaptor (the one connect opened), and the connection a
\* client holds carries no channel but that one.
C15_PubSubOnAdaptorChannel ==
    /\ \A t \in DOMAIN tasks :
          (tasks[t].op \in {"publish_event", "subscribe_event"} /\ tasks[t].ch # None)
             => tasks[t].ch = rpc[tasks[t].inst]
    /\ \A i \in made :
          connection[i] # None =>
             \A h \in Chans : chans[h].conn = connection[i] => h = rpc[i]

(* ------------------------------- C16 ---------------------------------- *)

\* What C16 asks of every step.
C16_Step ==
    \A t \in DOMAIN tasks :
       (tasks'[t] # tasks[t] /\ tasks'[t].op \in AllOps) =>
          /\ connection' = connection
          /\ rpc' = rpc
          /\ conns' = conns
          /\ tasks'[t].opens = 0
          /\ tasks'[t].closes = 0

\* C16: no step of a send, call, register_event, unregister_event,
\* publish_event or subscribe_event, successful or failing, refused or not,
\* changes the connection field or the adaptor field of a client, opens a
\* transport connection or closes one.
C16_OperationsKeepFields == [][C16_Step]_vars

\* The channel of the adaptor dropped under a call in flight: the call failed,
\* and the client still holds the same connection and the same (dead) adaptor.
C16_Witness ==
    \E t \in DOMAIN tasks :
       /\ tasks[t].op = "call" /\ tasks[t].pc = "done" /\ tasks[t].conn0
       /\ tasks[t].exc = "RPCError"
       /\ tasks[0].pc = "idle"
       /\ connection[1] = 1 /\ rpc[1] = 1 /\ conns[1] = "open"
       /\ chans[1].closed

(* ------------------------------- C17 ---------------------------------- *)

\* No connect, reconnect, close or get_channel is in progress on client i.
Settled(i) ==
    \A t \in DOMAIN tasks :
       tasks[t].inst = i => tasks[t].pc \in {"idle", "done", "reply", "retry"}

\* C17: whenever no lifecycle call is in progress on a client, its connection
\* field is set exactly when its adaptor field is set, and when both are set
\* the adaptor's channel is a channel of the connection held.
C17_ConnectionIffAdaptor ==
    \A i \in made :
       Settled(i) =>
          /\ (connection[i] # None) <=> (rpc[i] # None)
          /\ (connection[i] # None /\ rpc[i] # None)
                => chans[rpc[i]].conn = connection[i]

(* ------------------------------- C18 ---------------------------------- *)

\* C18: whenever no lifecycle call is in progress on the client, every transport
\* connection that is open is the one its connection field refers to.
C18_NoConnectionLeak ==
    \A c \in Conns :
       (conns[c] = "open" /\ Settled(1)) => connection[1] = c

(* ------------------------------- C19 ---------------------------------- *)

\* The error kind of the operation's own domain.
DomainError(o) ==
    IF o = "publish_event" THEN "EventPublishError" ELSE "EventSubscribeError"

\* What C19 asks of every step: a publish_event or subscribe_event (taken with
\* retry_count = 1) that passed its connectivity test and ends while a close()
\* of the same client is in progress has returned or raised its domain error,
\* and did not fail on an empty connection field.
C19_Step ==
    \A t \in DOMAIN tasks :
       LET T == tasks[t]
           T2 == tasks'[t]
       IN (/\ T.op \in {"publish_event", "subscribe_event"}
           /\ T.conn0 /\ T.rc = 1
           /\ T.pc \notin {"idle", "done"} /\ T2.pc = "done"
           /\ tasks[0].pc = "closing" /\ tasks[0].inst = T.inst)
          => /\ T2.exc \in {OK, DomainError(T.op)}
             /\ T2.cause # "AttributeError"

\* C19: a publish_event or subscribe_event in flight beside a close() of its
\* client completes or fails with EventPublishError / EventSubscribeError,
\* never with another error and never on an emptied connection field.
C19_CloseBesideInFlightOperation == [][C19_Step]_vars

(* ------------------------------- C20 ---------------------------------- *)

\* A create waits for the lock of its url only while a create for that same url
\* is constructing, or with the lock free and itself about to be run.
WaitsOnOwnUrl ==
    \A t \in DOMAIN tasks :
       tasks[t].pc = "lock_wait" =>
          LET l == _locks[tasks[t].url]
          IN /\ \E k \in 1..Len(l.waiters) : l.waiters[k] = t
             /\ l.locked => Building(tasks[t].url) # {}
             /\ ~l.locked => l.waiters # <<>>

\* C20: with every request of a connect attempt answered, every create that is
\* called returns or raises in the end; and no create waits on a lock because
\* of a construction for another url.
C20_CreateReturns ==
    /\ \A t \in 1..NCallers : (tasks[t].op = "create") ~> (tasks[t].pc = "done")
    /\ []WaitsOnOwnUrl

\* A create for url 1 failed; one that waited behind it on the lock then
\* constructed and returned the client; and a create for url 2 returned too.
C20_Witness ==
    \E a, b, c \in DOMAIN tasks :
       /\ a \in Failed(1)
       /\ b \in Got(1) /\ tasks[b].waited /\ tasks[b].inst = tasks[b].ret
       /\ c \in Got(2)

====
